---- MODULE Spec2Model ----
(***************************************************************************)
(* Push-based parser combinators of src/parser/combinators.rs: the literal *)
(* matcher (ConstantParser), the commit wrapper (CommittedParser), the     *)
(* sequencing combinator (AndThenParser) and the buffering adapter         *)
(* (BufferedParser), driven by a caller that pushes chunks and calls done. *)
(*                                                                         *)
(* A &str is modelled as a sequence of one-character strings.  A matcher   *)
(* is a record holding its fields; push and done are operators returning   *)
(* the matcher after the call, the value returned and the values the       *)
(* downstream consumer accepted during the call.                           *)
(***************************************************************************)
EXTENDS Integers, Sequences, FiniteSets, TLC

\* ------------------------------------------------------------------ bounds

\* Longest chunk the driver pushes, besides the chunks of the scenarios.
MaxChunk == 2

\* Number of calls over which two instances are compared for equal behaviour.
EquivDepth == 2

\* ---------------------------------------------------------------- strings

Alphabet == {"a", "b", "c", "d"}

RECURSIVE Strings(_)
\* All strings over Alphabet of length at most n.
Strings(n) ==
    IF n = 0 THEN {<<>>}
    ELSE LET shorter == Strings(n - 1)
         IN  shorter \cup {Append(s, ch) : s \in shorter, ch \in Alphabet}

\* Inputs of test_constant that are longer than MaxChunk.
TestChunks ==
    { <<"f", "r", "e", "d">>,
      <<"a", "b", "c", "d", "e", "f">> }

\* The inputs of the sequencing scenario: "abcd" and "abxy".
ScenarioChunks ==
    { <<"a", "b", "c", "d">>,
      <<"a", "b", "x", "y">> }

\* The chunks the driver may push.
Chunks == Strings(MaxChunk) \cup TestChunks \cup ScenarioChunks

\* str::starts_with
starts_with(s, p) == Len(p) <= Len(s) /\ SubSeq(s, 1, Len(p)) = p

\* &s[i..]
SliceFrom(s, i) == SubSeq(s, i + 1, Len(s))

\* &s[..n]
SliceTo(s, n) == SubSeq(s, 1, n)

\* ---------------------------------------------------------------- results

\* The value () accepted by a Consumer<Unit>.
Unit == <<>>

Undecided == [tag |-> "Undecided"]

Committed == [tag |-> "Committed"]

Matched(rest) == [tag |-> "Matched", rest |-> rest]

Failed(b) == [tag |-> "Failed", b |-> b]

\* ---------------------------------------------------------- matcher states

AtOffset(index) == [tag |-> "AtOffset", index |-> index]

AtEnd(b) == [tag |-> "AtEnd", b |-> b]

Beginning == [tag |-> "Beginning"]

Middle(buffer) == [tag |-> "Middle", buffer |-> buffer]

EndMatch == [tag |-> "EndMatch"]

EndFail(b) == [tag |-> "EndFail", b |-> b]

\* ------------------------------------------------------------ construction

constant(string) ==
    [kind |-> "ConstantParser", constant |-> string, state |-> AtOffset(0)]

CommittedParser(p) == [kind |-> "CommittedParser", parser |-> p]

\* The right matcher is stored commit-wrapped; the left side is active first.
AndThenParser(l, r) ==
    [kind |-> "AndThenParser", lhs |-> l, rhs |-> CommittedParser(r), in_lhs |-> TRUE]

BufferedParser(p) == [kind |-> "BufferedParser", parser |-> p, state |-> Beginning]

\* ------------------------------------------------------------------- calls

\* What a call gives: the matcher after it, the MatchResult of a push (res)
\* or the bool of a done (ret), and what downstream accepted (out).
PushOutcome(m, res, out) == [m |-> m, res |-> res, out |-> out]

DoneOutcome(m, ret, out) == [m |-> m, ret |-> ret, out |-> out]

RECURSIVE push(_, _)
RECURSIVE done(_)

\* ConstantParser::push with its first two arms in the other order: a chunk that
\* ends exactly at the end of the constant is taken for a partial match.
ConstantParser_push_PrefixFirst(self, string) ==
    IF self.state.tag = "AtOffset"
    THEN LET index == self.state.index
         IN  IF starts_with(SliceFrom(self.constant, index), string)
             THEN PushOutcome([self EXCEPT !.state = AtOffset(index + Len(string))],
                              Undecided, <<>>)
             ELSE IF starts_with(string, SliceFrom(self.constant, index))
             THEN PushOutcome([self EXCEPT !.state = AtEnd(TRUE)],
                              Matched(SliceFrom(string, Len(self.constant) - index)),
                              <<Unit>>)
             ELSE PushOutcome([self EXCEPT !.state = AtEnd(FALSE)], Failed(TRUE), <<>>)
    ELSE IF self.state.b
    THEN PushOutcome(self, Matched(string), <<>>)
    ELSE PushOutcome(self, Failed(TRUE), <<>>)

\* ConstantParser::push that advances the offset by one more than the chunk.
ConstantParser_push_OffByOne(self, string) ==
    IF self.state.tag = "AtOffset"
    THEN LET index == self.state.index
         IN  IF starts_with(string, SliceFrom(self.constant, index))
             THEN PushOutcome([self EXCEPT !.state = AtEnd(TRUE)],
                              Matched(SliceFrom(string, Len(self.constant) - index)),
                              <<Unit>>)
             ELSE IF starts_with(SliceFrom(self.constant, index), string)
             THEN PushOutcome([self EXCEPT !.state = AtOffset(index + Len(string) + 1)],
                              Undecided, <<>>)
             ELSE PushOutcome([self EXCEPT !.state = AtEnd(FALSE)], Failed(TRUE), <<>>)
    ELSE IF self.state.b
    THEN PushOutcome(self, Matched(string), <<>>)
    ELSE PushOutcome(self, Failed(TRUE), <<>>)

\* ConstantParser::push that returns Undecided without advancing the offset.
ConstantParser_push_NoAdvance(self, string) ==
    IF self.state.tag = "AtOffset"
    THEN LET index == self.state.index
         IN  IF starts_with(string, SliceFrom(self.constant, index))
             THEN PushOutcome([self EXCEPT !.state = AtEnd(TRUE)],
                              Matched(SliceFrom(string, Len(self.constant) - index)),
                              <<Unit>>)
             ELSE IF starts_with(SliceFrom(self.constant, index), string)
             THEN PushOutcome(self, Undecided, <<>>)
             ELSE PushOutcome([self EXCEPT !.state = AtEnd(FALSE)], Failed(TRUE), <<>>)
    ELSE IF self.state.b
    THEN PushOutcome(self, Matched(string), <<>>)
    ELSE PushOutcome(self, Failed(TRUE), <<>>)

ConstantParser_push(self, string) ==
    IF self.state.tag = "AtOffset"
    THEN LET index == self.state.index
         IN  IF starts_with(string, SliceFrom(self.constant, index))
             THEN PushOutcome([self EXCEPT !.state = AtEnd(TRUE)],
                              Matched(SliceFrom(string, Len(self.constant) - index)),
                              <<Unit>>)
             ELSE IF starts_with(SliceFrom(self.constant, index), string)
             THEN PushOutcome([self EXCEPT !.state = AtOffset(index + Len(string))],
                              Undecided, <<>>)
             ELSE PushOutcome([self EXCEPT !.state = AtEnd(FALSE)], Failed(TRUE), <<>>)
    ELSE IF self.state.b
    THEN PushOutcome(self, Matched(string), <<>>)
    ELSE PushOutcome(self, Failed(TRUE), <<>>)

ConstantParser_done(self) ==
    DoneOutcome([self EXCEPT !.state = AtOffset(0)], self.state = AtEnd(TRUE), <<>>)

\* CommittedParser::push that hands Failed(b) through with its flag.
CommittedParser_push_KeepsFailed(self, value) ==
    LET r == push(self.parser, value)
        m == [self EXCEPT !.parser = r.m]
    IN  CASE r.res.tag = "Undecided" -> PushOutcome(m, Committed, r.out)
          [] r.res.tag = "Committed" -> PushOutcome(m, Committed, r.out)
          [] r.res.tag = "Matched"   -> PushOutcome(m, Matched(r.res.rest), r.out)
          [] r.res.tag = "Failed"    -> PushOutcome(m, Failed(r.res.b), r.out)

\* CommittedParser::push that hands Undecided through instead of committing.
CommittedParser_push_KeepsUndecided(self, value) ==
    LET r == push(self.parser, value)
        m == [self EXCEPT !.parser = r.m]
    IN  CASE r.res.tag = "Undecided" -> PushOutcome(m, Undecided, r.out)
          [] r.res.tag = "Committed" -> PushOutcome(m, Committed, r.out)
          [] r.res.tag = "Matched"   -> PushOutcome(m, Matched(r.res.rest), r.out)
          [] r.res.tag = "Failed"    -> PushOutcome(m, Failed(FALSE), r.out)

CommittedParser_push(self, value) ==
    LET r == push(self.parser, value)
        m == [self EXCEPT !.parser = r.m]
    IN  CASE r.res.tag = "Undecided" -> PushOutcome(m, Committed, r.out)
          [] r.res.tag = "Committed" -> PushOutcome(m, Committed, r.out)
          [] r.res.tag = "Matched"   -> PushOutcome(m, Matched(r.res.rest), r.out)
          [] r.res.tag = "Failed"    -> PushOutcome(m, Failed(FALSE), r.out)

CommittedParser_done(self) ==
    LET r == done(self.parser)
    IN  DoneOutcome([self EXCEPT !.parser = r.m], r.ret, r.out)

AndThenParser_push(self, value) ==
    IF self.in_lhs
    THEN LET l == push(self.lhs, value)
             m == [self EXCEPT !.lhs = l.m]
         IN  CASE l.res.tag = "Undecided" -> PushOutcome(m, Undecided, l.out)
               [] l.res.tag = "Committed" -> PushOutcome(m, Committed, l.out)
               [] l.res.tag = "Matched"   ->
                    LET r == push(self.rhs, l.res.rest)
                    IN  PushOutcome([m EXCEPT !.in_lhs = FALSE, !.rhs = r.m],
                                    r.res, l.out \o r.out)
               [] l.res.tag = "Failed"    -> PushOutcome(m, Failed(l.res.b), l.out)
    ELSE LET r == push(self.rhs, value)
         IN  PushOutcome([self EXCEPT !.rhs = r.m], r.res, r.out)

\* AndThenParser::done that also makes the left side active again.
AndThenParser_done_ResetsSide(self) ==
    LET l == done(self.lhs)
    IN  IF l.ret
        THEN LET r == done(self.rhs)
             IN  DoneOutcome([self EXCEPT !.lhs = l.m, !.rhs = r.m, !.in_lhs = TRUE],
                             r.ret, l.out \o r.out)
        ELSE DoneOutcome([self EXCEPT !.lhs = l.m, !.in_lhs = TRUE], FALSE, l.out)

\* lhs.done() && rhs.done(): rhs.done() runs only when lhs.done() gave true.
AndThenParser_done(self) ==
    LET l == done(self.lhs)
    IN  IF l.ret
        THEN LET r == done(self.rhs)
             IN  DoneOutcome([self EXCEPT !.lhs = l.m, !.rhs = r.m], r.ret, l.out \o r.out)
        ELSE DoneOutcome([self EXCEPT !.lhs = l.m], FALSE, l.out)

\* BufferedParser::push that matches on self.state without mem::replace: an arm
\* that stores no state leaves the one it found.
BufferedParser_push_NoReplace(self, string) ==
    LET old == self.state
    IN  CASE old.tag \in {"Beginning", "Middle"} ->
               LET r == push(self.parser, string)
                   m == [self EXCEPT !.parser = r.m]
                   buffer == IF old.tag = "Middle" THEN old.buffer ELSE <<>>
               IN  ( CASE r.res.tag \in {"Undecided", "Committed"} ->
                            PushOutcome([m EXCEPT !.state = Middle(buffer \o string)],
                                        r.res, <<>>)
                       [] r.res.tag = "Failed" ->
                            PushOutcome([m EXCEPT !.state = EndFail(r.res.b)], r.res, <<>>)
                       [] r.res.tag = "Matched" ->
                            PushOutcome(m, r.res,
                              << buffer \o SliceTo(string, Len(string) - Len(r.res.rest)) >>) )
          [] old.tag = "EndMatch" -> PushOutcome(self, Matched(string), <<>>)
          [] old.tag = "EndFail"  -> PushOutcome(self, Failed(old.b), <<>>)

\* The inner matcher is given a DiscardConsumer: what it emits is dropped.
BufferedParser_push(self, string) ==
    LET old == self.state
        replaced == [self EXCEPT !.state = EndMatch]
    IN  CASE old.tag \in {"Beginning", "Middle"} ->
               LET r == push(self.parser, string)
                   m == [replaced EXCEPT !.parser = r.m]
                   buffer == IF old.tag = "Middle" THEN old.buffer ELSE <<>>
               IN  ( CASE r.res.tag \in {"Undecided", "Committed"} ->
                            PushOutcome([m EXCEPT !.state = Middle(buffer \o string)],
                                        r.res, <<>>)
                       [] r.res.tag = "Failed" ->
                            PushOutcome([m EXCEPT !.state = EndFail(r.res.b)], r.res, <<>>)
                       [] r.res.tag = "Matched" ->
                            PushOutcome(m, r.res,
                              << buffer \o SliceTo(string, Len(string) - Len(r.res.rest)) >>) )
          [] old.tag = "EndMatch" -> PushOutcome(replaced, Matched(string), <<>>)
          [] old.tag = "EndFail"  -> PushOutcome(replaced, Failed(old.b), <<>>)

\* BufferedParser::done without the assignment self.state = Beginning.
BufferedParser_done_NoReset(self) ==
    LET r == done(self.parser)
        m == [self EXCEPT !.parser = r.m]
    IN  DoneOutcome(m, r.ret,
                    IF r.ret /\ self.state.tag = "Middle"
                    THEN <<self.state.buffer>> ELSE <<>>)

\* BufferedParser::done without the test of result: a buffer is emitted whenever
\* the state is Middle.
BufferedParser_done_EmitsUnchecked(self) ==
    LET r == done(self.parser)
        m == [self EXCEPT !.parser = r.m, !.state = Beginning]
    IN  DoneOutcome(m, r.ret,
                    IF self.state.tag = "Middle"
                    THEN <<self.state.buffer>> ELSE <<>>)

BufferedParser_done(self) ==
    LET r == done(self.parser)
        m == [self EXCEPT !.parser = r.m, !.state = Beginning]
    IN  DoneOutcome(m, r.ret,
                    IF r.ret /\ self.state.tag = "Middle"
                    THEN <<self.state.buffer>> ELSE <<>>)

\* Parser::push, dispatched on the implementing type.
push(self, value) ==
    CASE self.kind = "ConstantParser"  -> ConstantParser_push(self, value)
      [] self.kind = "CommittedParser" -> CommittedParser_push(self, value)
      [] self.kind = "AndThenParser"   -> AndThenParser_push(self, value)
      [] self.kind = "BufferedParser"  -> BufferedParser_push(self, value)

\* Parser::done, dispatched on the implementing type.
done(self) ==
    CASE self.kind = "ConstantParser"  -> ConstantParser_done(self)
      [] self.kind = "CommittedParser" -> CommittedParser_done(self)
      [] self.kind = "AndThenParser"   -> AndThenParser_done(self)
      [] self.kind = "BufferedParser"  -> BufferedParser_done(self)

\* ----------------------------------------------------------------- driver

\* The targets of the literal matchers.
Targets ==
    { <<>>, <<"a">>, <<"a", "b">>, <<"a", "b", "c">>, <<"c", "d">> }

Literals == {constant(t) : t \in Targets}

\* The matchers a driver is given.
Matchers ==
    Literals
    \cup {CommittedParser(constant(t)) : t \in {<<>>, <<"a", "b">>}}
    \cup {CommittedParser(AndThenParser(constant(<<"a">>), constant(<<"b">>)))}
    \cup {AndThenParser(constant(<<"a", "b">>), constant(<<"c", "d">>)),
          AndThenParser(constant(<<"a">>), constant(<<"b">>)),
          AndThenParser(constant(<<>>), constant(<<"a", "b">>)),
          AndThenParser(constant(<<"a", "b">>), constant(<<>>))}
    \cup {BufferedParser(constant(t)) : t \in {<<>>, <<"a", "b">>, <<"a", "b", "c">>}}
    \cup {BufferedParser(CommittedParser(constant(<<"a", "b">>))),
          BufferedParser(AndThenParser(constant(<<"a", "b">>), constant(<<"c", "d">>)))}

\* The classification of a MatchResult.
Kind(res) ==
    IF res.tag = "Failed" THEN (IF res.b THEN "FailedT" ELSE "FailedF") ELSE res.tag

Terminal == {"Matched", "FailedT", "FailedF"}

VARIABLES
    made,     \* the matcher as constructed
    parser,   \* the matcher instance the driver holds
    op,       \* the last call: "new", "push" or "done"
    input,    \* the chunks of the run, concatenated, up to and including the
              \* push that first gave Matched or Failed
    seen,     \* the classifications the pushes of the run have returned
    last      \* the classification the last push of the run returned, "None" if none

vars == <<made, parser, op, input, seen, last>>

Init ==
    /\ made \in Matchers
    /\ parser = made
    /\ op = "new"
    /\ input = <<>>
    /\ seen = {}
    /\ last = "None"

\* The driver pushes one chunk.
Push(c) ==
    LET r == push(parser, c)
    IN  /\ parser' = r.m
        /\ op' = "push"
        /\ input' = IF seen \cap Terminal = {} THEN input \o c ELSE input
        /\ seen' = seen \cup {Kind(r.res)}
        /\ last' = Kind(r.res)
        /\ UNCHANGED made

\* The driver ends the run.
Done ==
    LET r == done(parser)
    IN  /\ parser' = r.m
        /\ op' = "done"
        /\ input' = <<>>
        /\ seen' = {}
        /\ last' = "None"
        /\ UNCHANGED made

Next ==
    \/ \E c \in Chunks : Push(c)
    \/ Done

Spec == Init /\ [][Next]_vars

\* ------------------------------------------------------------- properties

\* p is a prefix of s and shorter than it.
ProperPrefix(p, s) == starts_with(s, p) /\ p # s

\* The matchers the congruence law is stated for: a literal, a commit-wrapped
\* literal, a sequence of two literals, the buffering adapter over a literal.
CoreMatcher(m) ==
    \/ m.kind = "ConstantParser"
    \/ m.kind = "CommittedParser" /\ m.parser.kind = "ConstantParser"
    \/ m.kind = "AndThenParser" /\ m.lhs.kind = "ConstantParser"
                                /\ m.rhs.parser.kind = "ConstantParser"
    \/ m.kind = "BufferedParser" /\ m.parser.kind = "ConstantParser"

RECURSIVE SameBehaviour(_, _, _)
\* m1 and m2 answer every sequence of at most n calls with the same values
\* returned and the same values emitted.
SameBehaviour(m1, m2, n) ==
    \/ n = 0
    \/ m1 = m2
    \/ /\ LET d1 == done(m1)
              d2 == done(m2)
          IN  d1.ret = d2.ret /\ d1.out = d2.out /\ SameBehaviour(d1.m, d2.m, n - 1)
       /\ \A c \in Chunks :
            LET p1 == push(m1, c)
                p2 == push(m2, c)
            IN  p1.res = p2.res /\ p1.out = p2.out /\ SameBehaviour(p1.m, p2.m, n - 1)

\* The run has not begun: no push since construction or the last done.
FreshRun == op # "push"

\* C1 (as claimed): in every reachable state of a core matcher, for every chunk
\* and every split a ++ b of it, push(a); push(b) ends with the same
\* classification, the same emissions in total and the same behaviour afterwards
\* as push(a ++ b).
C1_Congruence ==
    CoreMatcher(made) =>
        \A c \in Chunks : \A i \in 0..Len(c) :
            LET whole  == push(parser, c)
                first  == push(parser, SliceTo(c, i))
                second == push(first.m, SliceFrom(c, i))
            IN  /\ Kind(second.res) = Kind(whole.res)
                /\ first.out \o second.out = whole.out
                /\ SameBehaviour(second.m, whole.m, EquivDepth)

\* C2 (as claimed): in every reachable state of every matcher, push of the empty
\* chunk returns Undecided, emits nothing and leaves the matcher as it was.
C2_EmptyNoOp ==
    LET r == push(parser, <<>>)
    IN  r.res = Undecided /\ r.out = <<>> /\ r.m = parser

\* C3 (as claimed): once a push of the run has returned Matched, every later push
\* returns Matched with the whole chunk as remainder; once one has returned
\* Failed(b), every later push returns Failed(b).
C3_AutomatonClosure ==
    \A c \in Chunks :
        LET r == push(parser, c)
        IN  /\ "Matched" \in seen => r.res = Matched(c)
            /\ \A b \in BOOLEAN : Kind(Failed(b)) \in seen => r.res = Failed(b)

\* C4 (as claimed): after done, the instance answers every following sequence of
\* calls as the freshly constructed matcher does.
C4_ResetCompleteness ==
    op = "done" => SameBehaviour(parser, made, EquivDepth)

\* C5 (as claimed): done of a sequence runs the done of both children, whatever
\* the left one returns, and leaves both children in their initial state.
C5_DoneCallsBoth ==
    made.kind = "AndThenParser" =>
        LET d == done(parser)
        IN  /\ d.m.lhs = done(parser.lhs).m
            /\ d.m.rhs = done(parser.rhs).m
            /\ d.m.lhs = made.lhs
            /\ d.m.rhs = made.rhs

\* C6: in every reachable state of every matcher, a push that returns Undecided
\* or Failed(true) has emitted nothing.
C6_SideEffectFree ==
    \A c \in Chunks :
        LET r == push(parser, c)
        IN  Kind(r.res) \in {"Undecided", "FailedT"} => r.out = <<>>

\* A sequence whose left literal is part-way: one chunk makes it fail
\* backtrackably with nothing emitted, another completes the left literal, which
\* emits, and runs the right matcher on the remainder, which commits.
C6_Witness ==
    /\ made.kind = "AndThenParser"
    /\ parser.in_lhs
    /\ last = "Undecided"
    /\ \E c \in Chunks :
         LET r == push(parser, c) IN r.res = Failed(TRUE) /\ r.out = <<>>
    /\ \E c \in Chunks :
         LET r == push(parser, c) IN r.res = Committed /\ r.out = <<Unit>>

\* The transitions of the result automaton, from the classification of the last
\* push of the run to that of the next.
Allowed(from, to) ==
    CASE from \in {"None", "Undecided"} -> TRUE
      [] from = "Committed" -> to \in {"Committed", "Matched", "FailedF"}
      [] from = "Matched"   -> to = "Matched"
      [] OTHER              -> to = from

\* C7 (as claimed): once a push of the run has returned Committed no later push
\* returns Undecided or Failed(true), and the outcomes of a run follow the
\* transitions of the result automaton.
C7_CommitPermanence ==
    \A c \in Chunks :
        LET k == Kind(push(parser, c).res)
        IN  /\ "Committed" \in seen => k \notin {"Undecided", "FailedT"}
            /\ Allowed(last, k)

\* C8 (as claimed): in every run of every matcher, done returns true exactly
\* when some push of the run returned Matched.
C8_DoneReportsMatch ==
    done(parser).ret <=> "Matched" \in seen

\* C9: for a literal with target T and X the chunks of the run so far followed by
\* the chunk pushed, the push returns Undecided when X is a proper prefix of T,
\* Matched with the part of the chunk after the end of T when it is the first
\* push at which T is a prefix of X, Failed(true) when it is the first at which X
\* and T are not prefixes of one another; the unit value is emitted in the push
\* that first returns Matched and in no other, and no push returns Committed or
\* Failed(false).
C9_LiteralOverStream ==
    made.kind = "ConstantParser" =>
        \A c \in Chunks :
            LET T == made.constant
                X == input \o c
                r == push(parser, c)
            IN  /\ ProperPrefix(X, T) => r.res = Undecided
                /\ starts_with(X, T) /\ (seen = {} \/ ~starts_with(input, T))
                     => r.res = Matched(SliceFrom(X, Len(T)))
                /\ ~starts_with(T, X) /\ ~starts_with(X, T) /\ starts_with(T, input)
                     => r.res = Failed(TRUE)
                /\ r.out = IF r.res.tag = "Matched" /\ "Matched" \notin seen
                           THEN <<Unit>> ELSE <<>>
                /\ Kind(r.res) \notin {"Committed", "FailedF"}

\* The literal "abc" after push("ab"): push("cd") returns Matched("d") and emits.
C9_Witness ==
    /\ made = constant(<<"a", "b", "c">>)
    /\ op = "push"
    /\ input = <<"a", "b">>
    /\ last = "Undecided"
    /\ LET r == push(parser, <<"c", "d">>)
       IN  r.res = Matched(<<"d">>) /\ r.out = <<Unit>>

\* C10 (as claimed): a sequence returns a failure of its active left matcher
\* unchanged; once the left matcher has matched in the run, every outcome is
\* Committed, Matched or Failed(false); and sequence("ab", "cd") at the start of
\* a run answers push("abcd") with Matched("") and then done with true, and
\* push("abxy") with Failed(false).
C10_SequenceFailure ==
    made.kind = "AndThenParser" =>
        /\ \A c \in Chunks :
             LET r == push(parser, c)
                 l == push(parser.lhs, c)
             IN  /\ parser.in_lhs /\ l.res.tag = "Failed" => r.res = l.res
                 /\ r.m.lhs.state = AtEnd(TRUE)
                      => Kind(r.res) \in {"Committed", "Matched", "FailedF"}
        /\ made = AndThenParser(constant(<<"a", "b">>), constant(<<"c", "d">>)) /\ FreshRun
             => LET r == push(parser, <<"a", "b", "c", "d">>)
                IN  /\ r.res = Matched(<<>>)
                    /\ done(r.m).ret
                    /\ push(parser, <<"a", "b", "x", "y">>).res = Failed(FALSE)

\* The part of a chunk a Matched result has consumed.
Consumed(c, res) == SliceTo(c, Len(c) - Len(res.rest))

\* C11 (as claimed): when a push of the buffering adapter returns Matched for the
\* first time in a run, the sink receives in that call exactly one value, the
\* chunks pushed earlier in the run followed by the consumed prefix of the chunk;
\* a push that returns Undecided, Committed or Failed emits nothing; and the
\* adapter over the literal "ab" answers push("a"), push("bc") with Undecided
\* and Matched("c"), the sink receiving "ab".
C11_BufferedCapture ==
    made.kind = "BufferedParser" =>
        /\ \A c \in Chunks :
             LET r == push(parser, c)
             IN  /\ r.res.tag = "Matched" /\ "Matched" \notin seen
                      => r.out = << input \o Consumed(c, r.res) >>
                 /\ r.res.tag # "Matched" => r.out = <<>>
        /\ made = BufferedParser(constant(<<"a", "b">>)) /\ FreshRun
             => LET r1 == push(parser, <<"a">>)
                    r2 == push(r1.m, <<"b", "c">>)
                IN  /\ r1.res = Undecided /\ r1.out = <<>>
                    /\ r2.res = Matched(<<"c">>) /\ r2.out = << <<"a", "b">> >>

\* C12 (as claimed): once the buffering adapter has returned Failed(b) in a run,
\* every further push returns Failed(b) and leaves the state EndFail(b); once it
\* has returned Matched, every further push returns Matched(chunk), emits nothing
\* and leaves the state EndMatch; the inner matcher is not called in either case.
C12_BufferedPostTerminal ==
    made.kind = "BufferedParser" =>
        \A c \in Chunks :
            LET r == push(parser, c)
            IN  /\ \A b \in BOOLEAN :
                     Kind(Failed(b)) \in seen
                       => /\ r.res = Failed(b)
                          /\ r.m.state = EndFail(b)
                          /\ r.m.parser = parser.parser
                /\ "Matched" \in seen
                     => /\ r.res = Matched(c) /\ r.out = <<>>
                        /\ r.m.state = EndMatch
                        /\ r.m.parser = parser.parser

\* The commit wrappers among a matcher and the matchers it holds.
RECURSIVE CommitWrappers(_)
CommitWrappers(m) ==
    CASE m.kind = "ConstantParser"  -> {}
      [] m.kind = "CommittedParser" -> {m} \cup CommitWrappers(m.parser)
      [] m.kind = "AndThenParser"   -> CommitWrappers(m.lhs) \cup CommitWrappers(m.rhs)
      [] m.kind = "BufferedParser"  -> CommitWrappers(m.parser)

\* C13: push of a commit wrapper returns Committed when the inner push returns
\* Undecided or Committed, Matched(r) when it returns Matched(r), Failed(false)
\* when it returns Failed(b); the sink receives what the inner matcher emits and
\* nothing else, the wrapper holds nothing besides the inner matcher, and its
\* done returns what the inner done returns.
C13_CommitWrapperTransform ==
    \A w \in CommitWrappers(parser) :
        /\ DOMAIN w = {"kind", "parser"}
        /\ \A c \in Chunks :
             LET inner == push(w.parser, c)
                 r     == push(w, c)
             IN  /\ r.res = CASE inner.res.tag \in {"Undecided", "Committed"} -> Committed
                              [] inner.res.tag = "Matched" -> Matched(inner.res.rest)
                              [] inner.res.tag = "Failed" -> Failed(FALSE)
                 /\ r.out = inner.out
                 /\ r.m = CommittedParser(inner.m)
        /\ LET inner == done(w.parser)
               d     == done(w)
           IN  d.ret = inner.ret /\ d.out = inner.out /\ d.m = CommittedParser(inner.m)

\* A commit wrapper over a sequence whose left literal has matched: the inner
\* matcher answers one chunk with Committed, another with Failed(false) and a
\* third with Matched.
C13_Witness ==
    /\ made = CommittedParser(AndThenParser(constant(<<"a">>), constant(<<"b">>)))
    /\ last = "Committed"
    /\ ~parser.parser.in_lhs
    /\ \E c \in Chunks : push(parser.parser, c).res = Committed
    /\ \E c \in Chunks : push(parser.parser, c).res = Failed(FALSE)
    /\ \E c \in Chunks : push(parser.parser, c).res.tag = "Matched"

\* The values of BufferedParserState, with the buffers of length at most MaxChunk.
AdapterStates ==
    {Beginning, EndMatch, EndFail(TRUE), EndFail(FALSE)}
    \cup {Middle(b) : b \in Strings(MaxChunk)}

\* C14: done of the buffering adapter, whatever state the adapter is in, calls the
\* inner done, returns its result and leaves the adapter in Beginning; it emits
\* the buffer when the inner done returned true and the state was Middle, and
\* nothing otherwise.  Checked for the state the adapter is in and for every
\* other state it could be given over the same inner matcher.
C14_BufferedDone ==
    made.kind = "BufferedParser" =>
        \A st \in AdapterStates \cup {parser.state} :
            LET self  == [parser EXCEPT !.state = st]
                inner == done(self.parser)
                d     == done(self)
            IN  /\ d.ret = inner.ret
                /\ d.m.parser = inner.m
                /\ d.m.state = Beginning
                /\ d.out = IF inner.ret /\ st.tag = "Middle" THEN <<st.buffer>> ELSE <<>>

\* The adapter in Middle with a buffer, the inner literal part-way: done returns
\* false, emits nothing and leaves Beginning.
C14_Witness ==
    /\ made = BufferedParser(constant(<<"a", "b", "c">>))
    /\ parser.state = Middle(<<"a", "b">>)
    /\ LET d == done(parser)
       IN  ~d.ret /\ d.out = <<>> /\ d.m = made

\* C15: the buffering adapter starts a run in Beginning; it is in Middle, the only
\* state holding a buffer, only when the run has had pushes and all of them
\* returned Undecided or Committed, so a run whose first push returns Matched or
\* Failed never enters Middle; no push leads from EndMatch or EndFail to Middle;
\* a Matched on the first push of a run emits the consumed prefix of the chunk;
\* and the state the adapter is left in on leaving Middle holds no buffer.
C15_BufferingMinimality ==
    made.kind = "BufferedParser" =>
        /\ FreshRun => parser.state = Beginning
        /\ parser.state.tag = "Middle"
             => seen # {} /\ seen \subseteq {"Undecided", "Committed"}
        /\ "buffer" \in DOMAIN parser.state <=> parser.state.tag = "Middle"
        /\ \A c \in Chunks :
             LET r == push(parser, c)
             IN  /\ r.m.state.tag = "Middle" => Kind(r.res) \in {"Undecided", "Committed"}
                 /\ parser.state.tag \in {"EndMatch", "EndFail"}
                      => r.m.state.tag # "Middle"
                 /\ seen = {} /\ r.res.tag = "Matched"
                      => r.out = << Consumed(c, r.res) >> /\ r.m.state = EndMatch
                 /\ parser.state.tag = "Middle" /\ r.m.state.tag # "Middle"
                      => "buffer" \notin DOMAIN r.m.state
        /\ "buffer" \notin DOMAIN done(parser).m.state

\* The adapter over the literal "ab" after a first push of "abcd", which returned
\* Matched("cd"): it is in EndMatch without having been in Middle.
C15_Witness ==
    /\ made = BufferedParser(constant(<<"a", "b">>))
    /\ input = <<"a", "b", "c", "d">>
    /\ seen = {"Matched"}
    /\ parser.state = EndMatch

\* The literal matchers among a matcher and the matchers it holds.
RECURSIVE LiteralsIn(_)
LiteralsIn(m) ==
    CASE m.kind = "ConstantParser"  -> {m}
      [] m.kind = "CommittedParser" -> LiteralsIn(m.parser)
      [] m.kind = "AndThenParser"   -> LiteralsIn(m.lhs) \cup LiteralsIn(m.rhs)
      [] m.kind = "BufferedParser"  -> LiteralsIn(m.parser)

C17_LiteralOffset ==
    \A l \in LiteralsIn(parser) :
        \/ l.state \in {AtEnd(TRUE), AtEnd(FALSE)}
        \/ /\ l.state.tag = "AtOffset"
           /\ 0 <= l.state.index
           /\ l.state.index <= Len(l.constant)
           /\ l.state.index = Len(l.constant) => l.constant = <<>>

\* The literal "abc" at offset 2, the largest offset it takes.
C17_Witness ==
    /\ made = constant(<<"a", "b", "c">>)
    /\ op = "push"
    /\ parser.state = AtOffset(2)

\* The sequencing combinators among a matcher and the matchers it holds.
RECURSIVE SequencesIn(_)
SequencesIn(m) ==
    CASE m.kind = "ConstantParser"  -> {}
      [] m.kind = "CommittedParser" -> SequencesIn(m.parser)
      [] m.kind = "AndThenParser"   ->
           {m} \cup SequencesIn(m.lhs) \cup SequencesIn(m.rhs)
      [] m.kind = "BufferedParser"  -> SequencesIn(m.parser)

C19_OneCapturePerRun ==
    made.kind = "BufferedParser" =>
        /\ \A c \in Chunks :
             LET r == push(parser, c)
             IN  /\ Len(r.out) <= 1
                 /\ r.out # <<>> => r.res.tag = "Matched" /\ "Matched" \notin seen
        /\ LET d == done(parser)
           IN  /\ Len(d.out) <= 1
               /\ "Matched" \in seen => d.out = <<>>
               /\ "Matched" \notin seen /\ ~d.ret => d.out = <<>>

\* The adapter over "ab" after push("a"), push("b"...): the second push emitted
\* the capture, and the run is not yet closed.
C19_Witness ==
    /\ made = BufferedParser(constant(<<"a", "b">>))
    /\ seen = {"Undecided", "Matched"}
    /\ last = "Matched"
    /\ parser.state = EndMatch
    /\ done(parser).ret /\ done(parser).out = <<>>

\* C20: a push of a non-empty chunk to a literal that returns Undecided leaves an
\* offset larger than before and smaller than the length of the target; the
\* offset is the length of the input of the run, so a run has fewer Undecided
\* pushes of non-empty chunks than the target has characters; a push in a run
\* still in progress returns Undecided, Matched or Failed(true), the last two
\* closing the run; and the literal
\* with the zero-length target answers its first push with a terminal outcome.
C20_LiteralProgress ==
    made.kind = "ConstantParser" =>
        /\ parser.state.tag = "AtOffset" => parser.state.index = Len(input)
        /\ \A c \in Chunks \ {<<>>} :
             LET r == push(parser, c)
             IN  r.res = Undecided
                   => /\ r.m.state.tag = "AtOffset"
                      /\ r.m.state.index > parser.state.index
                      /\ r.m.state.index < Len(made.constant)
        /\ parser.state.tag = "AtOffset"
             => \A c \in Chunks :
                   LET r == push(parser, c)
                   IN  \/ r.res = Undecided
                       \/ r.res.tag = "Matched" /\ r.m.state = AtEnd(TRUE)
                       \/ r.res = Failed(TRUE) /\ r.m.state = AtEnd(FALSE)
        /\ made.constant = <<>> /\ parser.state.tag = "AtOffset"
             => \A c \in Chunks : Kind(push(parser, c).res) \in Terminal

\* The literal "abc" at offset 1: push("b") returns Undecided and leaves offset 2.
C20_Witness ==
    /\ made = constant(<<"a", "b", "c">>)
    /\ input = <<"a">>
    /\ parser.state = AtOffset(1)
    /\ LET r == push(parser, <<"b">>)
       IN  r.res = Undecided /\ r.m.state = AtOffset(2)

====
